---------------------------- MODULE Spec2Model ----------------------------
(***************************************************************************)
(* A model of the Raiinmaker plugin: the verification API client           *)
(* (services/raiinmakerService.ts), the status reducer                     *)
(* (utils/responseFormatter.ts), the pre-check                             *)
(* (services/contentPreVerificationService.ts, environment.ts) and the     *)
(* verify-content action handler (actions/verifyGenerationContent.ts as    *)
(* bundled in dist/index.js).                                              *)
(*                                                                         *)
(* JavaScript values are encoded as follows.  undefined and null are the   *)
(* marker strings UNDEF and NULL; the booleans true/false/null of a        *)
(* tri-state result are JsTrue/JsFalse/JsNull, distinct from the payload   *)
(* strings "true"/"false".  A text is a sequence of characters so that     *)
(* trim, length and substring are computed and not assumed.                *)
(***************************************************************************)
EXTENDS Integers, Sequences, FiniteSets, TLC

VARIABLES
    task,        \* reducer: the task record handed to the Reducer
    response,    \* reducer: what formatVerificationStatusResponse produced
    call,        \* client: the last client operation and its outcome
    runtime,     \* handler: the host runtime's settings (getSetting || process.env)
    inv,         \* handler: the verify-content invocations, by invocation number
    memories,    \* handler: the host's audit memory store (append order)
    remoteTasks, \* handler: task ids the remote service has created (in order)
    act          \* handler: the last status-check, listing or data-verification
                 \* invocation and what came of it

vars == <<task, response, call, runtime, inv, memories, remoteTasks, act>>

reducerVars == <<task, response>>
clientVars  == <<call>>
handlerVars == <<runtime, inv, memories, remoteTasks, act>>

---------------------------------------------------------------------------
(* Bounds of the model *)

MaxVotes == 2        \* longest vote list handed to the Reducer
MaxConsensus == 3    \* largest consensusVotes value of a task record
MaxLen == 2          \* longest content text, in characters
MaxInv == 2          \* verify-content invocations in one run
MaxLimit == 12       \* largest limit a caller passes to getAllTasks
MaxPage == 2         \* largest page a caller passes to getAllTasks
MaxRecent == 2       \* memories getMemories returns to a lone status-check

---------------------------------------------------------------------------
(* JavaScript values *)

UNDEF == "<undefined>"
NULL == "<null>"
JsTrue == "<true>"
JsFalse == "<false>"
JsNull == "<null>"
NoNumber == 0 - 1    \* an absent (undefined) numeric field

\* x || dflt for a string-valued field: undefined, null and "" are falsy
OrElse(x, dflt) == IF x \in {UNDEF, NULL, ""} THEN dflt ELSE x

\* x || 0 for a numeric field: undefined and 0 are falsy
OrZero(n) == IF n = NoNumber THEN 0 ELSE n

\* !x for a string-valued field
Falsy(x) == x \in {UNDEF, NULL, ""}

---------------------------------------------------------------------------
(* utils/responseFormatter.ts: the Task Status Reducer                     *)

\* A vote list element: null, or an object with an answer field
VoteValues ==
    {[kind |-> "null", answer |-> UNDEF]} \cup
    {[kind |-> "object", answer |-> a] : a \in {"true", "false", "yes", UNDEF}}

BoundedSeq(S, n) == UNION {[1..k -> S] : k \in 0..n}

\* task.votes: undefined, null, a truthy non-list, or a list
VotesValues ==
    {[kind |-> k, items |-> <<>>] : k \in {"undefined", "null", "nonlist"}} \cup
    {[kind |-> "list", items |-> s] : s \in BoundedSeq(VoteValues, MaxVotes)}

StatusValues == {UNDEF, "pending", "completed", "failed", "automatic"}
AnswerValues == {NULL, "true", "yes", "1", "false", "no", "0", "TRUE", "maybe"}

\* The argument of the Reducer: null, undefined, or a task object
TaskInputs ==
    {[kind |-> k, id |-> UNDEF, status |-> UNDEF, answer |-> NULL,
      votes |-> [kind |-> "undefined", items |-> <<>>],
      consensusVotes |-> NoNumber] : k \in {"null", "undefined"}} \cup
    {[kind |-> "object", id |-> i, status |-> s, answer |-> a, votes |-> v,
      consensusVotes |-> c] :
        i \in {UNDEF, "id"}, s \in StatusValues, a \in AnswerValues,
        v \in VotesValues, c \in {NoNumber} \cup {0, MaxConsensus}}

\* responseFormatter.ts:34-39: the tri-state decoding of task.answer
ParseAnswer(answer) ==
    IF answer \in {"true", "yes", "1"} THEN JsTrue
    ELSE IF answer \in {"false", "no", "0"} THEN JsFalse
    ELSE JsNull

\* dist/index.js:1345-1350: the same decoding as bundled
ParseAnswerBundle(answer) ==
    IF answer \in {"true", "yes"} THEN JsTrue
    ELSE IF answer \in {"false", "no"} THEN JsFalse
    ELSE JsNull

\* A tally that reads the votes with the task-level encoding ("yes" approves)
RECURSIVE CountAnswerLoose(_, _)
CountAnswerLoose(items, a) ==
    IF items = <<>> THEN 0
    ELSE (IF Head(items).answer = a \/ (a = "true" /\ Head(items).answer = "yes")
             THEN 1 ELSE 0) + CountAnswerLoose(Tail(items), a)

\* responseFormatter.ts:44-45: votes.filter(v => v.answer === a).length
RECURSIVE CountAnswer(_, _)
CountAnswer(items, a) ==
    IF items = <<>> THEN 0
    ELSE (IF Head(items).answer = a THEN 1 ELSE 0) + CountAnswer(Tail(items), a)

\* v.answer raises a TypeError on a null element
HasNullVote(items) == \E k \in 1..Len(items) : items[k].kind = "null"

\* responseFormatter.ts:50-54
StatusEmoji(status, parsedAnswer) ==
    IF status = "completed"
    THEN (IF parsedAnswer = JsTrue THEN "check" ELSE "cross")
    ELSE "hourglass"

\* A status sentence that counts the votes still missing
StatusTextMissing(status, parsedAnswer, nVotes, consensusVotes) ==
    IF status = "completed"
    THEN [kind |-> "complete",
          word |-> IF parsedAnswer = JsTrue THEN "approved" ELSE "rejected",
          n |-> 0, m |-> 0, status |-> status]
    ELSE IF status = "pending"
    THEN [kind |-> "progress", word |-> "", n |-> consensusVotes - nVotes,
          m |-> consensusVotes, status |-> status]
    ELSE [kind |-> "echo", word |-> "", n |-> 0, m |-> 0, status |-> status]

\* responseFormatter.ts:57-64: the status sentence, as its variable parts
StatusText(status, parsedAnswer, nVotes, consensusVotes) ==
    IF status = "completed"
    THEN [kind |-> "complete",
          word |-> IF parsedAnswer = JsTrue THEN "approved" ELSE "rejected",
          n |-> 0, m |-> 0, status |-> status]
    ELSE IF status = "pending"
    THEN [kind |-> "progress", word |-> "", n |-> nVotes, m |-> consensusVotes,
          status |-> status]
    ELSE [kind |-> "echo", word |-> "", n |-> 0, m |-> 0, status |-> status]

NoText == [kind |-> "none", word |-> "", n |-> 0, m |-> 0, status |-> ""]

\* responseFormatter.ts:86-95: the minimal response of the catch block
DegradedResponse(t) ==
    [raised |-> FALSE, taskId |-> OrElse(t.id, "unknown"), status |-> "error",
     answer |-> JsNull, votesReceived |-> 0, votesRequired |-> 0,
     votesYes |-> NoNumber, votesNo |-> NoNumber, emoji |-> "none",
     text |-> NoText]

\* An exception that leaves the function
Raised ==
    [raised |-> TRUE, taskId |-> UNDEF, status |-> UNDEF, answer |-> JsNull,
     votesReceived |-> 0, votesRequired |-> 0, votesYes |-> NoNumber,
     votesNo |-> NoNumber, emoji |-> "none", text |-> NoText]

\* responseFormatter.ts:25-97
formatVerificationStatusResponse(t) ==
    IF t.kind # "object"
    THEN Raised   \* task.id raises in the try block and again in the catch block
    ELSE IF t.votes.kind = "nonlist" \/ HasNullVote(t.votes.items)
    THEN DegradedResponse(t)   \* votes.filter / v.answer raises, caught at line 82
    ELSE
      LET status == OrElse(t.status, "unknown")
          parsedAnswer == ParseAnswer(t.answer)
          votes == t.votes.items   \* task.votes || []
          consensusVotes == OrZero(t.consensusVotes)
      IN  [raised |-> FALSE, taskId |-> OrElse(t.id, ""), status |-> status,
           answer |-> parsedAnswer, votesReceived |-> Len(votes),
           votesRequired |-> consensusVotes,
           votesYes |-> CountAnswer(votes, "true"),
           votesNo |-> CountAnswer(votes, "false"),
           emoji |-> StatusEmoji(status, parsedAnswer),
           text |-> StatusText(status, parsedAnswer, Len(votes), consensusVotes)]

\* dist/index.js:1338-1392: the Reducer as bundled
formatVerificationStatusResponseBundle(t) ==
    IF t.kind # "object"
    THEN Raised
    ELSE IF t.votes.kind = "nonlist" \/ HasNullVote(t.votes.items)
    THEN DegradedResponse(t)
    ELSE
      LET status == OrElse(t.status, "unknown")
          parsedAnswer == ParseAnswerBundle(t.answer)
          votes == t.votes.items
          consensusVotes == OrZero(t.consensusVotes)
      IN  [raised |-> FALSE, taskId |-> OrElse(t.id, ""), status |-> status,
           answer |-> parsedAnswer, votesReceived |-> Len(votes),
           votesRequired |-> consensusVotes,
           votesYes |-> CountAnswer(votes, "true"),
           votesNo |-> CountAnswer(votes, "false"),
           emoji |-> StatusEmoji(status, parsedAnswer),
           text |-> StatusText(status, parsedAnswer, Len(votes), consensusVotes)]

NoResponse ==
    [raised |-> FALSE, taskId |-> UNDEF, status |-> "<none>", answer |-> JsNull,
     votesReceived |-> 0, votesRequired |-> 0, votesYes |-> NoNumber,
     votesNo |-> NoNumber, emoji |-> "none", text |-> NoText]

---------------------------------------------------------------------------
(* services/raiinmakerService.ts: the Remote Verification API Client       *)

\* A credential argument as JavaScript sees it
CredValues ==
    {[t |-> k, s |-> ""] : k \in {"undefined", "null", "number"}} \cup
    {[t |-> "string", s |-> v] : v \in {"", "cred"}}

Truthy(c) == (c.t = "string" /\ c.s # "") \/ c.t = "number"

\* The first argument of createRaiinmakerService: an API key or a config object
ConfigValues ==
    {[t |-> c.t, s |-> c.s, apiKey |-> c, appId |-> c] : c \in CredValues} \cup
    {[t |-> "object", s |-> "", apiKey |-> k, appId |-> a] :
        k \in CredValues, a \in CredValues}

\* raiinmakerService.ts:53-60; "ok" or the kind of error thrown
validateAuth(apiKey, appId) ==
    IF ~Truthy(apiKey) \/ apiKey.t # "string" THEN "RaiinmakerApiError"
    ELSE IF ~Truthy(appId) \/ appId.t # "string" THEN "RaiinmakerApiError"
    ELSE "ok"

\* raiinmakerService.ts:98-122: "ok" (a service is returned) or the error thrown
createRaiinmakerService(configOrApiKey, appId) ==
    IF configOrApiKey.t = "string"
    THEN IF ~Truthy(appId) THEN "RaiinmakerApiError"
         ELSE validateAuth([t |-> "string", s |-> configOrApiKey.s], appId)
    ELSE IF configOrApiKey.t \in {"undefined", "null"}
    THEN "TypeError"    \* userConfig.apiKey on null/undefined
    ELSE IF configOrApiKey.t = "number"
    THEN validateAuth([t |-> "undefined", s |-> ""], [t |-> "undefined", s |-> ""])
    ELSE validateAuth(configOrApiKey.apiKey, configOrApiKey.appId)

\* What the remote service (or the network) answers to one HTTP request
NetError ==
    [net |-> "error", httpOk |-> FALSE, json |-> FALSE, success |-> UNDEF,
     hasData |-> FALSE, id |-> UNDEF, votes |-> [kind |-> "undefined", items |-> <<>>]]

HttpResponses ==
    {NetError} \cup
    {[net |-> "ok", httpOk |-> h, json |-> FALSE, success |-> UNDEF,
      hasData |-> FALSE, id |-> UNDEF,
      votes |-> [kind |-> "undefined", items |-> <<>>]] : h \in BOOLEAN} \cup
    {[net |-> "ok", httpOk |-> h, json |-> TRUE, success |-> s, hasData |-> d,
      id |-> i, votes |-> v] :
        h \in BOOLEAN, s \in {JsTrue, JsFalse, UNDEF, "text"}, d \in BOOLEAN,
        i \in {UNDEF, "", "t1", "t2", "t3"},
        v \in {w \in VotesValues : w.kind # "list" \/ ~HasNullVote(w.items)}}

\* raiinmakerService.ts:34-42: the params argument of getAllTasks
ParamValues ==
    [hasLimit : BOOLEAN, limit : 0..MaxLimit, hasPage : BOOLEAN, page : 0..MaxPage]

NoParams == [hasLimit |-> FALSE, limit |-> 0, hasPage |-> FALSE, page |-> 0]

\* The query string of a request that was never built
NoQuery == [limit |-> NoNumber, page |-> NoNumber]

\* The outcome of a client operation
Throw(error, requests, resp) ==
    [outcome |-> "throw", error |-> error, requests |-> requests, taskId |-> UNDEF,
     votes |-> [kind |-> "undefined", items |-> <<>>], delays |-> <<>>, resp |-> resp,
     params |-> NoParams, query |-> NoQuery]

Return(requests, taskId, votes, resp) ==
    [outcome |-> "return", error |-> "none", requests |-> requests,
     taskId |-> taskId, votes |-> votes, delays |-> <<>>, resp |-> resp,
     params |-> NoParams, query |-> NoQuery]

\* raiinmakerService.ts:146
MinLimit == 10

\* raiinmakerService.ts:145
DefaultPage == 0

\* A query that sends the caller's limit whenever one is given
QueryOfUnclamped(params) ==
    [page |-> IF params.hasPage THEN params.page ELSE DefaultPage,
     limit |-> IF params.hasLimit THEN params.limit ELSE MinLimit]

\* raiinmakerService.ts:145-150: the page and limit put in the query string
QueryOf(params) ==
    [page |-> IF params.hasPage THEN params.page ELSE DefaultPage,
     limit |-> IF params.hasLimit /\ params.limit >= MinLimit
               THEN params.limit ELSE MinLimit]

\* raiinmakerService.ts:138-200 with handleApiResponse, 63-92; itemsIsList is
\* Array.isArray(rawData.data.items)
getAllTasks(params, resp, itemsIsList) ==
    LET res ==
          IF resp.net = "error" THEN Throw("RaiinmakerApiError", 1, resp) \* 190-197
          ELSE IF ~resp.httpOk THEN Throw("RaiinmakerApiError", 1, resp)  \* 64-82
          ELSE IF ~resp.json THEN Throw("RaiinmakerApiError", 1, resp)    \* 84-91
          ELSE IF resp.success \notin {JsTrue, JsFalse} \/ ~resp.hasData
                  \/ ~itemsIsList
          THEN Throw("RaiinmakerApiError", 1, resp)                       \* 172-177
          ELSE Return(1, UNDEF, [kind |-> "undefined", items |-> <<>>], resp)
    IN  [res EXCEPT !.params = params, !.query = QueryOf(params)]

\* A creation that validates its content only after the request was sent
createGenerationVerificationTaskEager(content, resp) ==
    IF resp.net = "error" \/ ~resp.json \/ ~resp.httpOk
       \/ resp.success \in {JsFalse, UNDEF} \/ ~resp.hasData \/ Falsy(resp.id)
       \/ content = <<>>
    THEN Throw("RaiinmakerApiError", 1, resp)
    ELSE Return(1, resp.id, resp.votes, resp)

\* A creation that checks the success flag the way getTaskById does (a boolean,
\* whatever its value)
createGenerationVerificationTaskAnyFlag(content, resp) ==
    IF content = <<>> THEN Throw("RaiinmakerApiError", 0, resp)
    ELSE IF resp.net = "error" \/ ~resp.json \/ ~resp.httpOk
    THEN Throw("RaiinmakerApiError", 1, resp)
    ELSE IF resp.success \notin {JsTrue, JsFalse} \/ ~resp.hasData \/ Falsy(resp.id)
    THEN Throw("RaiinmakerApiError", 1, resp)
    ELSE Return(1, resp.id, resp.votes, resp)

\* raiinmakerService.ts:425-539; content is a text
createGenerationVerificationTask(content, resp) ==
    IF content = <<>> THEN Throw("RaiinmakerApiError", 0, resp)      \* line 431
    ELSE IF resp.net = "error" THEN Throw("RaiinmakerApiError", 1, resp) \* 514-524
    ELSE IF ~resp.json THEN Throw("RaiinmakerApiError", 1, resp)      \* 485-492
    ELSE IF ~resp.httpOk THEN Throw("RaiinmakerApiError", 1, resp)    \* 495-501
    ELSE IF resp.success \in {JsFalse, UNDEF} \/ ~resp.hasData \/ Falsy(resp.id)
    THEN Throw("RaiinmakerApiError", 1, resp)                         \* 504-509
    ELSE Return(1, resp.id, resp.votes, resp)

\* The payload's votes field passed through as received
NormalizeVotesKeep(votes) == votes

\* raiinmakerService.ts:230-232: votes is always a list
NormalizeVotes(votes) ==
    IF votes.kind = "list" THEN votes ELSE [kind |-> "list", items |-> <<>>]

\* raiinmakerService.ts:205-248 with handleApiResponse, 63-92
getTaskById(taskId, resp) ==
    IF Falsy(taskId) THEN Throw("RaiinmakerApiError", 0, resp)        \* line 206
    ELSE IF resp.net = "error" THEN Throw("RaiinmakerApiError", 1, resp) \* 239-245
    ELSE IF ~resp.httpOk THEN Throw("RaiinmakerApiError", 1, resp)    \* 64-82
    ELSE IF ~resp.json THEN Throw("RaiinmakerApiError", 1, resp)      \* 84-91
    ELSE IF resp.success \notin {JsTrue, JsFalse} \/ ~resp.hasData \/ Falsy(resp.id)
    THEN Throw("RaiinmakerApiError", 1, resp)                         \* 222-227
    ELSE Return(1, resp.id, NormalizeVotes(resp.votes), resp)

\* raiinmakerService.ts:561
DefaultMaxAttempts == 5

\* One attempt of the validate endpoint: network failure, non-success, success
AttemptOutcomes == {"neterr", "httpfail", "ok"}

\* A backoff that grows by one second per retry
LinearBackoff(n) == n + 1

\* raiinmakerService.ts:596: Math.pow(2, attempts)
Pow2(n) == IF n = 0 THEN 1 ELSE IF n = 1 THEN 2 ELSE IF n = 2 THEN 4
           ELSE IF n = 3 THEN 8 ELSE IF n = 4 THEN 16 ELSE IF n = 5 THEN 32 ELSE 64

\* raiinmakerService.ts:556-619; outcomes[k] answers the k-th HTTP request
RECURSIVE getAgentValidation(_, _, _, _)
getAgentValidation(outcomes, attempts, maxAttempts, delays) ==
    LET o == outcomes[attempts + 1] IN
    IF o = "neterr"
    THEN [outcome |-> "throw", error |-> "TypeError", requests |-> attempts + 1,
          delays |-> delays]                                      \* 615-618
    ELSE IF o = "httpfail"
    THEN IF attempts < maxAttempts
         THEN getAgentValidation(outcomes, attempts + 1, maxAttempts,
                                 Append(delays, Pow2(attempts)))  \* 595-598
         ELSE [outcome |-> "throw", error |-> "Error", requests |-> attempts + 1,
               delays |-> delays]                                 \* line 600
    ELSE [outcome |-> "return", error |-> "none", requests |-> attempts + 1,
          delays |-> delays]

\* raiinmakerService.ts:253-271
getDataVerification(validationData, outcomes) ==
    IF validationData = <<>>
    THEN [Throw("RaiinmakerApiError", 0, NetError) EXCEPT !.delays = <<>>]
    ELSE LET r == getAgentValidation(outcomes, 0, DefaultMaxAttempts, <<>>) IN
         IF r.outcome = "throw"
         THEN [Throw("RaiinmakerApiError", r.requests, NetError)
                 EXCEPT !.delays = r.delays]                      \* 261-270
         ELSE [Return(r.requests, UNDEF, [kind |-> "undefined", items |-> <<>>],
                      NetError) EXCEPT !.delays = r.delays]

---------------------------------------------------------------------------
(* environment.ts: the Credential/Config Resolver                          *)

\* What runtime.getSetting(key) || process.env[key] evaluates to, per key
RuntimeValues ==
    [RAIINMAKER_API_KEY : {UNDEF, "key"},
     RAIINMAKER_APP_ID : {UNDEF, "app"},
     RAIINMAKER_ENVIRONMENT : {UNDEF, "production", "bogus"},
     OPENAI_API_KEY : {UNDEF, "sk"},
     ENABLE_PRE_VERIFICATION : {UNDEF, "false", "Off", "true"}]

\* value.toLowerCase() on the values above
ToLowerCase(v) == IF v = "Off" THEN "off" ELSE v

\* environment.ts:125-130
parseBoolean(value) ==
    IF Falsy(value) THEN TRUE
    ELSE ToLowerCase(value) \notin {"false", "0", "no", "off", "disabled"}

\* environment.ts:5-11, 15-64: TRUE when the zod schema accepts the settings
ConfigValid(rt) ==
    /\ ~Falsy(rt.RAIINMAKER_APP_ID)
    /\ ~Falsy(rt.RAIINMAKER_API_KEY)
    /\ OrElse(rt.RAIINMAKER_ENVIRONMENT, "development")
         \in {"development", "staging", "production"}

\* environment.ts:108-122
isPreVerificationEnabled(rt) ==
    IF ~ConfigValid(rt) THEN FALSE
    ELSE IF Falsy(rt.OPENAI_API_KEY) THEN FALSE
    ELSE parseBoolean(OrElse(rt.ENABLE_PRE_VERIFICATION, "true"))

---------------------------------------------------------------------------
(* services/contentPreVerificationService.ts: the pre-check                *)

\* What the completion API answers: a fault, or a parsed verdict object
PreFaults == {"neterr", "notjson", "errorfield", "nochoices", "unparsable",
              "nullvalue"}

PreOutcomes ==
    {[kind |-> k, passes |-> UNDEF, failedChecks |-> "missing"] : k \in PreFaults}
    \cup
    {[kind |-> "verdict", passes |-> p, failedChecks |-> f] :
        p \in {JsTrue, JsFalse, UNDEF}, f \in {"empty", "nonempty", "missing"}}

NoOutcome == [kind |-> "none", passes |-> UNDEF, failedChecks |-> "missing"]

NoPre == [called |-> FALSE, passes |-> FALSE, failedChecks |-> "missing",
          fetches |-> 0, raised |-> FALSE]

PreResult(passes, failedChecks, fetches) ==
    [called |-> TRUE, passes |-> passes, failedChecks |-> failedChecks,
     fetches |-> fetches, raised |-> FALSE]

\* A pre-check that fails closed: a fault is reported as a failed check
preVerifyContentFailClosed(rt, outcome) ==
    IF ~isPreVerificationEnabled(rt) THEN PreResult(TRUE, "empty", 0)
    ELSE IF outcome.kind \in PreFaults THEN PreResult(FALSE, "empty", 1)
    ELSE IF outcome.passes # JsTrue /\ outcome.failedChecks = "missing"
    THEN PreResult(FALSE, "empty", 1)
    ELSE PreResult(outcome.passes = JsTrue, outcome.failedChecks, 1)

\* contentPreVerificationService.ts:14-105
preVerifyContent(rt, outcome) ==
    IF ~isPreVerificationEnabled(rt) THEN PreResult(TRUE, "empty", 0)  \* 21-26
    ELSE IF Falsy(rt.OPENAI_API_KEY) THEN PreResult(TRUE, "empty", 0)  \* 29-34
    ELSE IF outcome.kind \in PreFaults
    THEN PreResult(TRUE, "empty", 1)          \* thrown at 53-84, caught at 100
    ELSE IF outcome.passes # JsTrue /\ outcome.failedChecks = "missing"
    THEN PreResult(TRUE, "empty", 1)          \* failedChecks.join raises at 95
    ELSE PreResult(outcome.passes = JsTrue, outcome.failedChecks, 1)   \* 98

---------------------------------------------------------------------------
(* actions/verifyGenerationContent.ts: the verify-content handler          *)

Chars == {" ", "h"}
Texts == BoundedSeq(Chars, MaxLen)

\* contentToVerify.trim() (dist/index.js:1172), computed from both ends
RECURSIVE TrimLeft(_)
TrimLeft(s) == IF s # <<>> /\ Head(s) = " " THEN TrimLeft(Tail(s)) ELSE s

RECURSIVE TrimRight(_)
TrimRight(s) ==
    IF s # <<>> /\ s[Len(s)] = " " THEN TrimRight(SubSeq(s, 1, Len(s) - 1)) ELSE s

\* No trimming at all
TrimNone(s) == s

Trim(s) == TrimRight(TrimLeft(s))

\* The options argument of the handler
OptionValues ==
    {[given |-> FALSE, hasContent |-> FALSE, content |-> <<>>, skip |-> UNDEF]}
    \cup
    {[given |-> TRUE, hasContent |-> h, content |-> c, skip |-> k] :
        h \in BOOLEAN, c \in Texts, k \in {UNDEF, JsTrue, JsFalse}}

\* verifyGenerationContentOptionsSchema.parse(options): content has min(1)
OptionsValid(options) ==
    ~(options.given /\ options.hasContent /\ options.content = <<>>)

\* uuidv4(): ensureUUID of a text that is no UUID returns a random one
Uuids == {"u1", "u2"}

\* The id the remote service gives to its n-th task
RemoteIdOf(n) == IF n = 1 THEN "t1" ELSE IF n = 2 THEN "t2" ELSE "t3"

\* What the remote service may answer to the handler's POST /task
CreateResponses(n) ==
    {r \in HttpResponses :
        /\ r.votes.kind = "undefined"
        /\ r.id \in {UNDEF, "", RemoteIdOf(n)}}

\* A payload handed to the result-delivery callback
Payload(kind, status, taskId, answer, votesRequired, votesReceived) ==
    [kind |-> kind, status |-> status, taskId |-> taskId, answer |-> answer,
     votesRequired |-> votesRequired, votesReceived |-> votesReceived]

ErrorPayload(kind) == Payload(kind, UNDEF, UNDEF, UNDEF, NoNumber, NoNumber)

\* dist/index.js:1200-1228
ApprovedPayload(taskId) == Payload("approved", "approved", taskId, JsTrue, 0, 0)

\* dist/index.js:1293-1309
PendingPayload(taskId) ==
    Payload("pending", "pending", taskId, UNDEF, NoNumber, NoNumber)

IdleInv ==
    [pc |-> "idle", content |-> <<>>, skip |-> FALSE, pre |-> NoPre,
     preOutcome |-> NoOutcome,
     taskId |-> UNDEF, createCalls |-> 0, createRequests |-> 0,
     memCalls |-> <<>>, callbacks |-> <<>>, ret |-> "none"]

\* The handler returns: its catch block reports and returns false
Fail(r, kind) ==
    [r EXCEPT !.pc = "done", !.ret = "false",
              !.callbacks = Append(@, ErrorPayload(kind))]

\* dist/index.js:1166-1171: options.content when non-empty, else the text
\* extracted from the message
ContentToVerify(options, extracted) ==
    IF options.given /\ options.hasContent /\ options.content # <<>>
    THEN options.content ELSE extracted

\* A handler that never takes the auto-approval branch
AutoApprovesNever(pre) == FALSE

\* dist/index.js:1196
AutoApproves(pre) == pre.passes

\* dist/index.js:1251
NeedsHumanTask(skip, pre) == skip \/ (pre.called /\ ~pre.passes)

\* dist/index.js:1148-1183: up to the first awaited collaborator
StartResult(r, rt, options, extracted) ==
    LET c == ContentToVerify(options, extracted)
        skip == options.given /\ options.skip = JsTrue
        r1 == [r EXCEPT !.content = c, !.skip = skip]
    IN  IF ~OptionsValid(options) THEN Fail(r1, "error")      \* 1150, caught 1313
        ELSE IF ~ConfigValid(rt) THEN Fail(r1, "error")       \* 1151, caught 1313
        ELSE IF Trim(c) = <<>> THEN Fail(r1, "noContent")     \* 1172-1179
        ELSE [r1 EXCEPT !.pc = IF skip THEN "create" ELSE "precheck"]

VerifyStart(i, options, extracted) ==
    /\ inv[i].pc = "idle"
    /\ inv' = [inv EXCEPT ![i] = StartResult(inv[i], runtime, options, extracted)]
    /\ UNCHANGED <<runtime, memories, remoteTasks, act, reducerVars, clientVars>>

\* dist/index.js:1183-1250: the pre-check and, when it passes, the approval
VerifyPreCheck(i, outcome, uuid) ==
    /\ inv[i].pc = "precheck"
    /\ LET pre == preVerifyContent(runtime, outcome)
           r1 == [inv[i] EXCEPT !.pre = pre,
                      !.preOutcome = IF pre.fetches = 0 THEN NoOutcome ELSE outcome]
       IN  inv' = [inv EXCEPT ![i] =
               IF AutoApproves(pre)
               THEN [r1 EXCEPT !.pc = "memAuto", !.taskId = uuid,
                               !.callbacks = Append(@, ApprovedPayload(uuid))]
               ELSE IF NeedsHumanTask(r1.skip, pre)
               THEN [r1 EXCEPT !.pc = "create"]
               ELSE [r1 EXCEPT !.pc = "done", !.ret = "true"]]  \* line 1312
    /\ UNCHANGED <<runtime, memories, remoteTasks, act, reducerVars, clientVars>>

\* dist/index.js:1251-1273: the remote task creation
VerifyCreate(i, resp) ==
    /\ inv[i].pc = "create"
    /\ LET res == createGenerationVerificationTask(inv[i].content, resp)
           r1 == [inv[i] EXCEPT !.createCalls = @ + 1,
                                !.createRequests = @ + res.requests]
       IN  /\ inv' = [inv EXCEPT ![i] =
                 IF res.outcome = "throw" THEN Fail(r1, "apiError") \* 1314-1320
                 ELSE IF Falsy(res.taskId) THEN Fail(r1, "invalidResponse")
                 ELSE [r1 EXCEPT !.pc = "memTask", !.taskId = res.taskId]]
           /\ remoteTasks' = IF res.outcome = "return"
                             THEN Append(remoteTasks, res.taskId) ELSE remoteTasks
    /\ UNCHANGED <<runtime, memories, act, reducerVars, clientVars>>

\* A store that keeps one entry per content
createMemoryOncePerContent(store, entry) ==
    IF \E k \in 1..Len(store) : store[k].content = entry.content
    THEN store ELSE Append(store, entry)

\* A store in which a write replaces the latest entry
createMemoryReplacing(store, entry) ==
    IF store = <<>> THEN <<entry>>
    ELSE Append(SubSeq(store, 1, Len(store) - 1), entry)

\* dist/index.js:1230, 1276: runtime.messageManager.createMemory resolving
createMemory(store, entry) == Append(store, entry)

\* dist/index.js:1230-1245, 1276-1291: the metadata of the memory written
MemoryEntry(i, r, taskType) ==
    [taskType |-> taskType, taskId |-> r.taskId, content |-> r.content, by |-> i]

\* dist/index.js:1230-1246 and 1276-1312: the audit memory write; ok is
\* whether the host's createMemory resolves
VerifyMemory(i, ok) ==
    /\ inv[i].pc \in {"memAuto", "memTask"}
    /\ LET r == inv[i]
           taskType == IF r.pc = "memAuto" THEN "contentAutoApproved"
                       ELSE "contentVerification"
           r1 == [r EXCEPT !.memCalls =
                      Append(@, [taskType |-> taskType, taskId |-> r.taskId])]
       IN  /\ inv' = [inv EXCEPT ![i] =
                 IF ~ok THEN Fail(r1, "error")                 \* 1321-1327
                 ELSE IF r.pc = "memTask"
                 THEN [r1 EXCEPT !.pc = "done", !.ret = "true",
                          !.callbacks = Append(@, PendingPayload(r.taskId))]
                 ELSE [r1 EXCEPT !.pc = "done", !.ret = "true"]]
           /\ memories' = IF ok
                          THEN createMemory(memories, MemoryEntry(i, r, taskType))
                          ELSE memories
    /\ UNCHANGED <<runtime, remoteTasks, act, reducerVars, clientVars>>

---------------------------------------------------------------------------
(* actions/checkVerificationStatus.ts, getQuestStatus.ts and               *)
(* getDataVerification.ts: the other action handlers (as bundled)          *)

\* What an action handler did: its return value, whether an exception left
\* it, the payloads it handed to the callback, the client operations it
\* invoked and the HTTP requests those sent, the getMemories calls it made,
\* the id it handed to getTaskById;
\* and what it was given: the task ids its three sources held, whether the
\* remote service was down, and which build of the handler ran
ActResult(op, ret, callbacks, remoteCalls, requests, taskId, status, answer) ==
    [op |-> op, ret |-> ret, raised |-> FALSE, callbacks |-> callbacks,
     remoteCalls |-> remoteCalls, requests |-> requests,
     taskId |-> taskId, status |-> status, answer |-> answer,
     optionId |-> UNDEF, messageId |-> UNDEF, recent |-> <<>>,
     hasText |-> TRUE, memOk |-> TRUE, memReads |-> 0, requestedId |-> UNDEF,
     remoteDown |-> FALSE, build |-> "dist"]

NoAct == ActResult("none", "none", <<>>, 0, 0, UNDEF, UNDEF, JsNull)

\* An error that leaves the handler instead of being reported
Propagated(op, remoteCalls, requests) ==
    [ActResult(op, "none", <<>>, remoteCalls, requests, UNDEF, UNDEF, JsNull)
        EXCEPT !.raised = TRUE]

\* dist/index.js:1534-1542, 863-869, 970-976: the handlers' catch blocks: the
\* error is logged, an apology is handed to the callback, false is returned
Caught(op, remoteCalls, requests) ==
    ActResult(op, "false", <<"error">>, remoteCalls, requests, UNDEF, UNDEF, JsNull)

\* The options argument of the status-check handler
StatusOptionValues ==
    {[given |-> FALSE, taskId |-> UNDEF]} \cup
    {[given |-> TRUE, taskId |-> t] : t \in {UNDEF, "", "t1"}}

\* The message of a status-check: whether it has a text, and the task id the
\* patterns of dist/index.js:1473 find in that text (UNDEF when none matches)
StatusMessageValues ==
    {[hasText |-> FALSE, idMatch |-> UNDEF]} \cup
    {[hasText |-> TRUE, idMatch |-> m] : m \in {UNDEF, "t2"}}

\* dist/index.js:1486-1500: the id of the first memory, in returned order,
\* that carries one; recent[k] is the id the k-th memory carries (in its
\* metadata, or else matched in its text), UNDEF when it carries none
RECURSIVE FirstTaskId(_)
FirstTaskId(recent) ==
    IF recent = <<>> THEN UNDEF
    ELSE IF ~Falsy(Head(recent)) THEN Head(recent)
    ELSE FirstTaskId(Tail(recent))

Resolved(from, taskId, failed, memReads) ==
    [from |-> from, taskId |-> taskId, failed |-> failed, memReads |-> memReads]

\* A resolution that asks for the service's first task when it finds no id
ResolveTaskIdOrFirst(options, msg, memOk, recent) ==
    IF options.given /\ ~Falsy(options.taskId)
    THEN Resolved("options", options.taskId, FALSE, 0)
    ELSE IF ~msg.hasText THEN Resolved("none", UNDEF, TRUE, 0)
    ELSE IF ~Falsy(msg.idMatch) THEN Resolved("message", msg.idMatch, FALSE, 0)
    ELSE IF ~memOk THEN Resolved("none", UNDEF, TRUE, 1)
    ELSE IF ~Falsy(FirstTaskId(recent))
    THEN Resolved("memory", FirstTaskId(recent), FALSE, 1)
    ELSE Resolved("first", RemoteIdOf(1), FALSE, 1)

\* A resolution that prefers the message text to the explicit option
ResolveTaskIdMessageFirst(options, msg, memOk, recent) ==
    IF msg.hasText /\ ~Falsy(msg.idMatch)
    THEN Resolved("message", msg.idMatch, FALSE, 0)
    ELSE IF options.given /\ ~Falsy(options.taskId)
    THEN Resolved("options", options.taskId, FALSE, 0)
    ELSE IF ~msg.hasText THEN Resolved("none", UNDEF, TRUE, 0)
    ELSE IF ~memOk THEN Resolved("none", UNDEF, TRUE, 1)
    ELSE IF ~Falsy(FirstTaskId(recent))
    THEN Resolved("memory", FirstTaskId(recent), FALSE, 1)
    ELSE Resolved("none", UNDEF, FALSE, 1)

\* dist/index.js:1469-1504: the task id of a status-check; memOk is whether
\* getMemories resolves, recent the ids carried by the memories it returns
ResolveTaskId(options, msg, memOk, recent) ==
    IF options.given /\ ~Falsy(options.taskId)
    THEN Resolved("options", options.taskId, FALSE, 0)
    ELSE IF ~msg.hasText
    THEN Resolved("none", UNDEF, TRUE, 0)             \* text.match raises
    ELSE IF ~Falsy(msg.idMatch) THEN Resolved("message", msg.idMatch, FALSE, 0)
    ELSE IF ~memOk
    THEN Resolved("none", UNDEF, TRUE, 1)             \* getMemories rejects
    ELSE IF ~Falsy(FirstTaskId(recent))
    THEN Resolved("memory", FirstTaskId(recent), FALSE, 1)
    ELSE Resolved("none", UNDEF, FALSE, 1)

\* The task record getTaskById returns, as the Reducer reads it
TaskOf(res, status, answer) ==
    [kind |-> "object", id |-> res.taskId, status |-> status, answer |-> answer,
     votes |-> res.votes, consensusVotes |-> MaxConsensus]

\* A result with the getMemories calls made and the id asked of getTaskById
WithResolution(result, id) ==
    [result EXCEPT !.memReads = id.memReads,
                   !.requestedId = IF result.remoteCalls = 0 THEN UNDEF
                                   ELSE id.taskId]

\* dist/index.js:1452-1543
checkVerificationStatus(rt, options, msg, memOk, recent, resp, status, answer) ==
    IF ~ConfigValid(rt) THEN Caught("status", 0, 0)                  \* 1454
    ELSE IF options.given /\ options.taskId = ""
    THEN Caught("status", 0, 0)                                     \* 1467
    ELSE
      LET id == ResolveTaskId(options, msg, memOk, recent) IN
      IF id.failed THEN WithResolution(Caught("status", 0, 0), id)
      ELSE IF id.from = "none"
      THEN WithResolution(ActResult("status", "false", <<"noTaskId">>, 0, 0, UNDEF,
                               UNDEF, JsNull), id)  \* 1495-1502
      ELSE
        LET res == getTaskById(id.taskId, resp) IN
        IF res.outcome = "throw"
        THEN WithResolution(Caught("status", 1, res.requests), id)
        ELSE IF resp.success = JsFalse
        THEN WithResolution(ActResult("status", "false", <<"notFound">>, 1,
                                 res.requests, id.taskId, "unknown", JsNull), id)  \* 1506-1515
        ELSE
          LET f == formatVerificationStatusResponseBundle(
                       TaskOf(res, status, answer))
          IN  WithResolution(ActResult("status", "true", <<"status">>, 1,
                                  res.requests, id.taskId, f.status, f.answer), id)  \* 1516-1533

\* actions/checkVerificationStatus.ts:76-249: the handler as written in the
\* source tree; it reports task.status as fetched and the verdict as the
\* string "true" or "false" (lines 176-193, 228-235)
checkVerificationStatusSource(rt, options, msg, memOk, recent, resp, status, answer) ==
    IF ~ConfigValid(rt) THEN Caught("status", 0, 0)                  \* 85
    ELSE IF options.given /\ options.taskId = ""
    THEN Caught("status", 0, 0)                                     \* 104
    ELSE
      LET id == ResolveTaskId(options, msg, memOk, recent) IN
      IF id.failed THEN WithResolution(Caught("status", 0, 0), id)
      ELSE IF id.from = "none"
      THEN WithResolution(ActResult("status", "false", <<"noTaskId">>, 0, 0, UNDEF,
                               UNDEF, JsNull), id)  \* 147-154
      ELSE
        LET res == getTaskById(id.taskId, resp) IN
        IF res.outcome = "throw"
        THEN WithResolution(Caught("status", 1, res.requests), id)
        ELSE IF resp.success = JsFalse
        THEN WithResolution(ActResult("status", "false", <<"notFound">>, 1,
                                 res.requests, id.taskId, "unknown", JsNull), id)  \* 164-174
        ELSE IF HasNullVote(res.votes.items)
        THEN WithResolution(Caught("status", 1, res.requests), id) \* 203
        ELSE
          LET isApproved == status = "completed" /\ answer \in {"true", "yes"}
          IN  WithResolution(ActResult("status", "true", <<"status">>, 1,
                                  res.requests, id.taskId, status,
                                  IF isApproved THEN "true" ELSE "false"), id)  \* 228-237

\* options.credentials of the listing handler: absent (or not two strings),
\* two strings of which one is empty, or two non-empty strings
CredentialOptionValues == {"absent", "empty", "good"}

\* dist/index.js:805-871; nItems is the length of the returned list
getQuestStatusHandler(rt, credentials, hasText, resp, itemsIsList, nItems) ==
    IF credentials = "absent" /\ ~ConfigValid(rt)
    THEN Caught("listing", 0, 0)                                     \* 813
    ELSE IF credentials = "empty" THEN Caught("listing", 0, 0)       \* 824
    ELSE IF ~hasText THEN Caught("listing", 0, 0)                    \* 825
    ELSE
      LET res == getAllTasks(NoParams, resp, itemsIsList) IN
      IF res.outcome = "throw" THEN Caught("listing", 1, res.requests)
      ELSE IF nItems = 0
      THEN ActResult("listing", "false", <<"empty">>, 1, res.requests, UNDEF,
                     UNDEF, JsNull)                                  \* 834-839
      ELSE ActResult("listing", "true", <<"list">>, 1, res.requests, UNDEF,
                     UNDEF, JsNull)

\* The classification of a validation answer: one that lets the caller proceed
\* or one that does not
ClassificationValues == {"approved", "rejected"}

\* dist/index.js:897-977; text is message.content.text
getDataVerificationHandler(rt, text, outcomes, classification) ==
    IF ~ConfigValid(rt) THEN Caught("data", 0, 0)                    \* 899
    ELSE
      LET res == getDataVerification(text, outcomes) IN
      IF res.outcome = "throw" THEN Caught("data", 1, res.requests)
      ELSE ActResult("data", IF classification = "approved" THEN "true" ELSE "false",
                     <<"result">>, 1, res.requests, UNDEF, classification, JsNull)

---------------------------------------------------------------------------
(* The specifications *)

NoCred == [t |-> "undefined", s |-> ""]
NoConfig == [t |-> "undefined", s |-> "", apiKey |-> NoCred, appId |-> NoCred]
NoOutcomes == [k \in 1..(DefaultMaxAttempts + 1) |-> "ok"]

\* A client operation with its arguments, and what came of it
Called(op, cfg, cred, text, tid, outcomes, res) ==
    [op |-> op, cfg |-> cfg, cred |-> cred, text |-> text, tid |-> tid,
     outcomes |-> outcomes, outcome |-> res.outcome, error |-> res.error,
     requests |-> res.requests, taskId |-> res.taskId, votes |-> res.votes,
     delays |-> res.delays, resp |-> res.resp, params |-> res.params,
     query |-> res.query]

NoCall ==
    Called("none", NoConfig, NoCred, <<>>, UNDEF, NoOutcomes,
           [outcome |-> "none", error |-> "none", requests |-> 0,
            taskId |-> UNDEF, votes |-> NetError.votes, delays |-> <<>>,
            resp |-> NetError, params |-> NoParams, query |-> NoQuery])

NullTask == CHOOSE t \in TaskInputs : t.kind = "null"

IdleRuntime ==
    [RAIINMAKER_API_KEY |-> "key", RAIINMAKER_APP_ID |-> "app",
     RAIINMAKER_ENVIRONMENT |-> UNDEF, OPENAI_API_KEY |-> UNDEF,
     ENABLE_PRE_VERIFICATION |-> UNDEF]

InitReducerVars == task = NullTask /\ response = NoResponse
InitClientVars == call = NoCall
InitHandlerVars ==
    /\ runtime = IdleRuntime
    /\ inv = [i \in 1..MaxInv |-> IdleInv]
    /\ memories = <<>>
    /\ remoteTasks = <<>>
    /\ act = NoAct

\* The verify-content handler, one invocation under every configuration
Init ==
    /\ runtime \in RuntimeValues
    /\ inv = [i \in 1..MaxInv |-> IdleInv]
    /\ memories = <<>>
    /\ remoteTasks = <<>>
    /\ act = NoAct
    /\ InitReducerVars
    /\ InitClientVars

StartStep == \E o \in OptionValues, e \in Texts : VerifyStart(1, o, e)
PreCheckStep == \E o \in PreOutcomes, u \in Uuids : VerifyPreCheck(1, o, u)
CreateStep ==
    \E r \in CreateResponses(Len(remoteTasks) + 1) : VerifyCreate(1, r)
MemoryStep == \E ok \in BOOLEAN : VerifyMemory(1, ok)

Next == StartStep \/ PreCheckStep \/ CreateStep \/ MemoryStep

Spec == Init /\ [][Next]_vars

\* The Reducer applied to every bounded task record
InitReducer ==
    /\ task \in TaskInputs
    /\ response = NoResponse
    /\ InitClientVars
    /\ InitHandlerVars

Reduce ==
    /\ response = NoResponse
    /\ response' = formatVerificationStatusResponse(task)
    /\ UNCHANGED <<task, clientVars, handlerVars>>

NextReducer == Reduce

SpecReducer == InitReducer /\ [][NextReducer]_vars

\* The client operations called with every bounded input and remote answer
InitClient ==
    /\ InitClientVars
    /\ InitReducerVars
    /\ InitHandlerVars

Construct ==
    call.op = "none" /\
    \E c \in ConfigValues, a \in CredValues :
        LET e == createRaiinmakerService(c, a) IN
        /\ call' = Called("construct", c, a, <<>>, UNDEF, NoOutcomes,
                          IF e = "ok"
                          THEN Return(0, UNDEF, NetError.votes, NetError)
                          ELSE Throw(e, 0, NetError))
        /\ UNCHANGED <<reducerVars, handlerVars>>

CallCreate ==
    call.op = "none" /\
    \E c \in Texts, r \in CreateResponses(1) :
        /\ call' = Called("createVerificationTask", NoConfig, NoCred, c, UNDEF,
                          NoOutcomes, createGenerationVerificationTask(c, r))
        /\ UNCHANGED <<reducerVars, handlerVars>>

CallGetTaskById ==
    call.op = "none" /\
    \E t \in {UNDEF, "", "t1"}, r \in HttpResponses :
        /\ call' = Called("getTaskById", NoConfig, NoCred, <<>>, t, NoOutcomes,
                          getTaskById(t, r))
        /\ UNCHANGED <<reducerVars, handlerVars>>

CallGetDataVerification ==
    call.op = "none" /\
    \E d \in Texts, o \in [1..(DefaultMaxAttempts + 1) -> AttemptOutcomes] :
        /\ call' = Called("getDataVerification", NoConfig, NoCred, d, UNDEF, o,
                          getDataVerification(d, o))
        /\ UNCHANGED <<reducerVars, handlerVars>>

CallGetAllTasks ==
    call.op = "none" /\
    \E p \in ParamValues, r \in CreateResponses(1), l \in BOOLEAN :
        /\ call' = Called("getAllTasks", NoConfig, NoCred, <<>>, UNDEF, NoOutcomes,
                          getAllTasks(p, r, l))
        /\ UNCHANGED <<reducerVars, handlerVars>>

NextClient ==
    \/ Construct
    \/ CallCreate
    \/ CallGetTaskById
    \/ CallGetDataVerification
    \/ CallGetAllTasks

SpecClient == InitClient /\ [][NextClient]_vars

\* All handlers together: MaxInv verify-content invocations of the same
\* content, interleaved with one another and with status-check, listing and
\* data-verification invocations
ActionRuntimes ==
    {rt \in RuntimeValues :
        /\ rt.RAIINMAKER_APP_ID = "app"
        /\ rt.RAIINMAKER_ENVIRONMENT = UNDEF
        /\ rt.ENABLE_PRE_VERIFICATION = UNDEF}

SameContent == <<"h">>

ActionOptions ==
    {o \in OptionValues : ~o.given \/ (~o.hasContent /\ o.content = <<>> /\ o.skip = JsTrue)}

ActionPreOutcomes ==
    {o \in PreOutcomes :
        \/ o.kind = "neterr"
        \/ (o.kind = "verdict" /\ o.passes = JsTrue /\ o.failedChecks = "empty")
        \/ (o.kind = "verdict" /\ o.passes = JsFalse /\ o.failedChecks = "nonempty")}

\* The remote service's answers: unreachable, refusing, or a task
ActionResponses(id) ==
    {NetError} \cup
    {[net |-> "ok", httpOk |-> TRUE, json |-> TRUE, success |-> s,
      hasData |-> TRUE, id |-> id, votes |-> NetError.votes] :
        s \in {JsTrue, JsFalse}}

Reverse(s) == [k \in 1..Len(s) |-> s[Len(s) + 1 - k]]

\* The task ids the audit entries of the store carry, oldest first
StoreIds == [k \in 1..Len(memories) |-> memories[k].taskId]

\* dist/index.js:1483-1486: what getMemories({roomId, count: 10}) returns, as
\* the ids its memories carry: the room's audit entries in either order,
\* possibly after a message that carries no id, or only such messages
RecentMemories ==
    {<<UNDEF>>, StoreIds, Reverse(StoreIds), <<UNDEF>> \o Reverse(StoreIds)}

InitActions ==
    /\ runtime \in ActionRuntimes
    /\ inv = [i \in 1..MaxInv |-> IdleInv]
    /\ memories = <<>>
    /\ remoteTasks = <<>>
    /\ act = NoAct
    /\ InitReducerVars
    /\ InitClientVars

\* The host runs one handler step at a time and takes the outcome of a
\* status-check, listing or data-verification invocation when it returns
HostIdle == act = NoAct

ActStart ==
    HostIdle /\
    \E i \in 1..MaxInv, o \in ActionOptions : VerifyStart(i, o, SameContent)

ActPreCheck ==
    HostIdle /\
    \E i \in 1..MaxInv, o \in ActionPreOutcomes, u \in Uuids :
        VerifyPreCheck(i, o, u)

ActCreate ==
    HostIdle /\
    \E i \in 1..MaxInv, r \in ActionResponses(RemoteIdOf(Len(remoteTasks) + 1)) :
        VerifyCreate(i, r)

ActMemory ==
    HostIdle /\ \E i \in 1..MaxInv, ok \in BOOLEAN : VerifyMemory(i, ok)

StatusCheck ==
    HostIdle /\
    \E o \in StatusOptionValues, m \in StatusMessageValues, memOk \in BOOLEAN,
       t \in RecentMemories, r \in ActionResponses("t1") :
        /\ act' = [checkVerificationStatus(runtime, o, m, memOk, t, r,
                                           "completed", "true")
                       EXCEPT !.optionId = IF o.given THEN o.taskId ELSE UNDEF,
                              !.messageId = m.idMatch,
                              !.recent = t,
                              !.hasText = m.hasText,
                              !.memOk = memOk,
                              !.remoteDown = (r = NetError)]
        /\ UNCHANGED <<runtime, inv, memories, remoteTasks, reducerVars, clientVars>>

Listing ==
    HostIdle /\
    \E c \in CredentialOptionValues, hasText \in BOOLEAN,
       r \in ActionResponses(UNDEF), l \in BOOLEAN, n \in 0..1 :
        /\ act' = [getQuestStatusHandler(runtime, c, hasText, r, l, n)
                       EXCEPT !.remoteDown = (r = NetError)]
        /\ UNCHANGED <<runtime, inv, memories, remoteTasks, reducerVars, clientVars>>

DataVerification ==
    HostIdle /\
    \E d \in {<<>>, SameContent}, o \in {"neterr", "httpfail", "ok"},
       c \in ClassificationValues :
        /\ act' = [getDataVerificationHandler(
                       runtime, d, [k \in 1..(DefaultMaxAttempts + 1) |-> o], c)
                       EXCEPT !.remoteDown = (o # "ok")]
        /\ UNCHANGED <<runtime, inv, memories, remoteTasks, reducerVars, clientVars>>

TakeResult ==
    /\ ~HostIdle
    /\ act' = NoAct
    /\ UNCHANGED <<runtime, inv, memories, remoteTasks, reducerVars, clientVars>>

NextActions ==
    \/ ActStart
    \/ ActPreCheck
    \/ ActCreate
    \/ ActMemory
    \/ StatusCheck
    \/ Listing
    \/ DataVerification
    \/ TakeResult

SpecActions == InitActions /\ [][NextActions]_vars

\* The status-check handler alone, in both builds, with every bounded task
\* snapshot, option, message and list of recent memories
StatusRuntimes ==
    {rt \in ActionRuntimes : rt.OPENAI_API_KEY = UNDEF}

StatusBuilds == {"dist", "source"}

\* The ids carried by the recent memories of the room: none, the id of a
\* remote task, or the id of an auto-approval
StatusRecents == BoundedSeq({UNDEF, "t2", "u1"}, MaxRecent)

\* What the remote service answers to GET /task/:id
StatusResponses ==
    {NetError} \cup
    {[net |-> "ok", httpOk |-> TRUE, json |-> TRUE, success |-> s,
      hasData |-> TRUE, id |-> "t1", votes |-> v] :
        s \in {JsTrue, JsFalse},
        v \in {NetError.votes,
               [kind |-> "list", items |-> <<[kind |-> "object", answer |-> "true"]>>]}}

InitStatus ==
    /\ runtime \in StatusRuntimes
    /\ inv = [i \in 1..MaxInv |-> IdleInv]
    /\ memories = <<>>
    /\ remoteTasks = <<>>
    /\ act = NoAct
    /\ InitReducerVars
    /\ InitClientVars

\* One status-check; task becomes the snapshot the handler fetched
StatusAny ==
    HostIdle /\
    \E b \in StatusBuilds, o \in StatusOptionValues, m \in StatusMessageValues,
       memOk \in BOOLEAN, recent \in StatusRecents, r \in StatusResponses,
       st \in StatusValues, a \in AnswerValues :
        LET res == IF b = "dist"
                   THEN checkVerificationStatus(runtime, o, m, memOk, recent, r,
                                                st, a)
                   ELSE checkVerificationStatusSource(runtime, o, m, memOk,
                                                      recent, r, st, a)
        IN  /\ act' = [res EXCEPT
                          !.optionId = IF o.given THEN o.taskId ELSE UNDEF,
                          !.messageId = m.idMatch,
                          !.recent = recent,
                          !.hasText = m.hasText,
                          !.memOk = memOk,
                          !.remoteDown = (r = NetError),
                          !.build = b]
            /\ task' = IF res.ret = "true"
                       THEN TaskOf(getTaskById(res.taskId, r), st, a)
                       ELSE NullTask
            /\ UNCHANGED <<response, runtime, inv, memories, remoteTasks,
                           clientVars>>

NextStatus == StatusAny

SpecStatus == InitStatus /\ [][NextStatus]_vars

---------------------------------------------------------------------------
(* Properties of the verify-content handler (specification Spec)           *)

\* A text that is empty or holds only whitespace
AllBlank(s) == \A k \in 1..Len(s) : s[k] = " "

Delivered(r, payload) == \E k \in 1..Len(r.callbacks) : r.callbacks[k] = payload

\* The handler went through no catch block and no failure branch
NoFailureReported(r) ==
    \A k \in 1..Len(r.callbacks) : r.callbacks[k].kind \in {"approved", "pending"}

AutoApprovedMemory(r) ==
    [taskType |-> "contentAutoApproved", taskId |-> r.taskId]

TaskCreatedMemory(r) ==
    [taskType |-> "contentVerification", taskId |-> r.taskId]

\* C1 (as claimed): for non-empty content and valid credentials, whenever the
\* pre-check is disabled or unconfigured, or skipped by the caller, or returns
\* passes=false, a finished invocation whose collaborators did not fail made
\* exactly one createVerificationTask call, wrote exactly one audit memory
\* entry tagged contentVerification with the returned task id, and reported
\* status "pending" with that non-empty task id.
C1_TaskCreatedWheneverNotPassed ==
    LET r == inv[1] IN
    ( /\ r.pc = "done"
      /\ ~AllBlank(r.content)
      /\ ConfigValid(runtime)
      /\ NoFailureReported(r)
      /\ \/ ~isPreVerificationEnabled(runtime)
         \/ r.skip
         \/ (r.pre.called /\ ~r.pre.passes) )
    => ( /\ r.createCalls = 1
         /\ r.memCalls = <<TaskCreatedMemory(r)>>
         /\ ~Falsy(r.taskId)
         /\ Delivered(r, PendingPayload(r.taskId)) )

\* C2: when the pre-check is enabled, not skipped, and returns passes=true, the
\* finished invocation made zero createVerificationTask calls, issued exactly
\* one audit memory write, tagged contentAutoApproved (and the store holds
\* exactly that one entry when the write was accepted), and reported status
\* "approved" with answer=true and votesRequired = votesReceived = 0.
C2_AutoApprovedWithoutTask ==
    LET r == inv[1] IN
    ( /\ r.pc = "done"
      /\ isPreVerificationEnabled(runtime)
      /\ ~r.skip
      /\ r.pre.called /\ r.pre.passes )
    => ( /\ r.createCalls = 0
         /\ r.createRequests = 0
         /\ remoteTasks = <<>>
         /\ r.memCalls = <<AutoApprovedMemory(r)>>
         /\ (r.ret = "true" =>
               /\ Len(memories) = 1
               /\ memories[1].taskType = "contentAutoApproved"
               /\ memories[1].taskId = r.taskId)
         /\ \E k \in 1..Len(r.callbacks) :
               /\ r.callbacks[k].status = "approved"
               /\ r.callbacks[k].answer = JsTrue
               /\ r.callbacks[k].votesRequired = 0
               /\ r.callbacks[k].votesReceived = 0 )

C2_Witness ==
    LET r == inv[1] IN
    /\ r.pc = "done" /\ r.ret = "true"
    /\ isPreVerificationEnabled(runtime)
    /\ ~r.skip
    /\ r.preOutcome.kind = "verdict" /\ r.preOutcome.passes = JsTrue
    /\ r.pre.passes
    /\ Len(memories) = 1

C4_RejectedBeforeAnyCall ==
    LET r == inv[1] IN
    ( /\ r.pc # "idle"
      /\ \/ AllBlank(r.content)
         \/ Falsy(runtime.RAIINMAKER_APP_ID)
         \/ Falsy(runtime.RAIINMAKER_API_KEY) )
    => ( /\ r.pc = "done"
         /\ r.ret = "false"
         /\ ~r.pre.called
         /\ r.pre.fetches = 0
         /\ r.createCalls = 0
         /\ r.createRequests = 0
         /\ r.memCalls = <<>>
         /\ memories = <<>>
         /\ remoteTasks = <<>> )

C4_Witness ==
    LET r == inv[1] IN
    /\ r.pc = "done" /\ r.ret = "false"
    /\ ConfigValid(runtime)
    /\ r.content # <<>>
    /\ AllBlank(r.content)

---------------------------------------------------------------------------
(* Properties of the Reducer (specification SpecReducer)                   *)

Reduced == response # NoResponse

\* The votes the Reducer tallies: task.votes || [], a list of vote objects
WellFormedVotes(t) ==
    /\ t.kind = "object"
    /\ t.votes.kind # "nonlist"
    /\ ~HasNullVote(t.votes.items)

\* C5 (as claimed): for every task whose status is not "completed", whatever
\* its answer field holds, the Reducer returns answer = null.
C5_AnswerNullUnlessCompleted ==
    ( /\ Reduced
      /\ ~response.raised
      /\ task.kind = "object"
      /\ task.status # "completed" )
    => response.answer = JsNull

\* C6 (as claimed): for every task with status "completed", the Reducer's answer
\* is true exactly when task.answer is "true" or "yes", false exactly when it
\* is "false" or "no", and null for every other value.
C6_CompletedAnswerDecoding ==
    ( /\ Reduced
      /\ WellFormedVotes(task)
      /\ task.status = "completed" )
    => ( /\ (response.answer = JsTrue <=> task.answer \in {"true", "yes"})
         /\ (response.answer = JsFalse <=> task.answer \in {"false", "no"})
         /\ response.answer \in {JsTrue, JsFalse, JsNull} )

\* C7: for every task whose votes field is absent or a list of vote objects,
\* votesReceived is the length of the list, votesYes the number of votes whose
\* answer is exactly "true", votesNo the number whose answer is exactly
\* "false", so votesYes + votesNo <= votesReceived.
C7_VoteTally ==
    ( Reduced /\ WellFormedVotes(task) )
    => LET items == task.votes.items
           yes == {k \in 1..Len(items) : items[k].answer = "true"}
           no == {k \in 1..Len(items) : items[k].answer = "false"}
       IN  /\ response.votesReceived = Len(items)
           /\ response.votesYes = Cardinality(yes)
           /\ response.votesNo = Cardinality(no)
           /\ response.votesYes + response.votesNo <= response.votesReceived

C7_Witness ==
    /\ Reduced
    /\ WellFormedVotes(task)
    /\ Len(task.votes.items) = 2
    /\ task.votes.items[1].answer = "yes"
    /\ task.votes.items[2].answer = "true"
    /\ response.votesReceived = 2
    /\ response.votesYes = 1
    /\ response.votesNo = 0

\* C8 (as claimed): the Reducer never raises, whatever the task record (a
\* null or missing record, missing fields, a non-list votes field, null vote
\* elements); on an internal fault it returns status "error", a null answer
\* and zero vote counts.
C8_ReducerNeverRaises ==
    Reduced =>
        /\ ~response.raised
        /\ (~WellFormedVotes(task) =>
              /\ response.status = "error"
              /\ response.answer = JsNull
              /\ response.votesReceived = 0
              /\ response.votesRequired = 0)

---------------------------------------------------------------------------
(* Properties of the client (specification SpecClient)                     *)

\* The envelope getTaskById accepts: a decodable successful response with a
\* boolean success flag, a data object and a data.id
AcceptedTaskEnvelope(resp) ==
    /\ resp.net = "ok" /\ resp.httpOk /\ resp.json
    /\ resp.success \in {JsTrue, JsFalse}
    /\ resp.hasData
    /\ ~Falsy(resp.id)

\* C9: for every successful response with a boolean success flag and a data.id,
\* getTaskById returns (does not raise) a task whose votes is a list: the
\* payload's list when it has one, the empty list when votes is omitted or is
\* not a list.
C9_VotesAlwaysAList ==
    ( /\ call.op = "getTaskById"
      /\ ~Falsy(call.tid)
      /\ AcceptedTaskEnvelope(call.resp) )
    => ( /\ call.outcome = "return"
         /\ call.votes.kind = "list"
         /\ (call.resp.votes.kind = "list" => call.votes = call.resp.votes)
         /\ (call.resp.votes.kind # "list" => call.votes.items = <<>>) )

C9_Witness ==
    /\ call.op = "getTaskById"
    /\ AcceptedTaskEnvelope(call.resp)
    /\ call.resp.votes.kind = "undefined"
    /\ call.outcome = "return"
    /\ call.votes = [kind |-> "list", items |-> <<>>]

\* A credential that is present and a non-empty string
GoodCred(c) == c.t = "string" /\ c.s # ""

\* The credentials createRaiinmakerService was given, in either calling style
GivenCredentialsGood(c) ==
    IF c.cfg.t = "object" THEN GoodCred(c.cfg.apiKey) /\ GoodCred(c.cfg.appId)
    ELSE GoodCred(c.cfg) /\ GoodCred(c.cred)

\* C10: createVerificationTask with empty content, getTaskById with an empty
\* task id, getDataVerification with empty input, and service construction
\* with a missing or non-string credential each fail having issued no network
\* request (so none is retried, and no retry delay is taken).
C10_LocalValidationBeforeNetwork ==
    ( \/ (call.op = "createVerificationTask" /\ call.text = <<>>)
      \/ (call.op = "getTaskById" /\ Falsy(call.tid))
      \/ (call.op = "getDataVerification" /\ call.text = <<>>)
      \/ (call.op = "construct" /\ ~GivenCredentialsGood(call)) )
    => ( /\ call.outcome = "throw"
         /\ call.requests = 0
         /\ call.delays = <<>> )

C10_Witness ==
    /\ call.op = "createVerificationTask"
    /\ call.text = <<>>
    /\ call.resp.net = "ok" /\ call.resp.httpOk /\ call.resp.json
    /\ call.outcome = "throw"
    /\ call.requests = 0

\* A failure raised by local validation, before any request (the cases of C10)
LocalValidationFailure(c) ==
    \/ (c.op = "createVerificationTask" /\ c.text = <<>>)
    \/ (c.op = "getTaskById" /\ Falsy(c.tid))
    \/ (c.op = "getDataVerification" /\ c.text = <<>>)
    \/ (c.op = "construct" /\ ~GivenCredentialsGood(c))

\* C11 (as claimed): the kind of a raised error separates the two causes: a
\* local validation failure (missing task id, missing credentials, empty
\* content) is raised as a plain error, not as the structured client error
\* (RaiinmakerApiError), and a failure after a request was sent is raised as
\* the structured client error.
C11_ErrorKindTellsCause ==
    call.outcome = "throw" =>
        /\ (LocalValidationFailure(call) => call.error # "RaiinmakerApiError")
        /\ (call.requests >= 1 => call.error = "RaiinmakerApiError")

\* C12: getAllTasks sends one request whose limit is the caller's L when
\* L >= 10, and 10 when L < 10 or L is absent; its page is the caller's value,
\* or 0 when absent.
C12_LimitClamped ==
    call.op = "getAllTasks" =>
        LET p == call.params
            q == call.query
        IN  /\ call.requests = 1
            /\ (p.hasLimit /\ p.limit >= 10 => q.limit = p.limit)
            /\ (~p.hasLimit \/ p.limit < 10 => q.limit = 10)
            /\ (p.hasPage => q.page = p.page)
            /\ (~p.hasPage => q.page = 0)

C12_Witness ==
    /\ call.op = "getAllTasks"
    /\ call.outcome = "return"
    /\ call.params.hasLimit /\ call.params.limit = 3
    /\ call.query.limit = 10
    /\ ~call.params.hasPage /\ call.query.page = 0

\* Every attempt of the validate endpoint answered with a non-success response
AllAttemptsRefused(c) ==
    \A k \in 1..Len(c.outcomes) : c.outcomes[k] = "httpfail"

\* C13 (as claimed): a getDataVerification call whose every attempt is
\* answered with a non-success HTTP response makes at most 5 HTTP attempts in
\* total, then raises the last error.
C13_AtMostFiveAttempts ==
    ( /\ call.op = "getDataVerification"
      /\ call.text # <<>>
      /\ AllAttemptsRefused(call) )
    => ( /\ call.requests <= 5
         /\ call.outcome = "throw" )

\* The response createVerificationTask accepts
AcceptedCreateEnvelope(resp) ==
    /\ resp.net = "ok" /\ resp.httpOk /\ resp.json
    /\ resp.success \in {JsTrue, "text"}    \* a truthy success flag
    /\ resp.hasData
    /\ resp.id \notin {UNDEF, NULL, ""}

\* C14: createVerificationTask with non-empty content issues exactly one HTTP
\* request whatever the outcome; it returns (the task id of the response)
\* exactly when the response is HTTP-successful, decodes, and carries a truthy
\* success flag and a non-empty data.id, and raises the client error otherwise.
C14_CreateIsSingleShot ==
    ( call.op = "createVerificationTask" /\ call.text # <<>> )
    => ( /\ call.requests = 1
         /\ (call.outcome = "return" <=> AcceptedCreateEnvelope(call.resp))
         /\ (call.outcome = "return" => call.taskId = call.resp.id)
         /\ (call.outcome # "return" =>
               call.outcome = "throw" /\ call.error = "RaiinmakerApiError") )

C14_Witness ==
    /\ call.op = "createVerificationTask"
    /\ call.text # <<>>
    /\ call.resp.net = "ok" /\ call.resp.httpOk /\ call.resp.json
    /\ call.resp.success = JsFalse
    /\ call.resp.hasData /\ call.resp.id = "t1"
    /\ call.outcome = "throw"
    /\ call.requests = 1

\* C20 (as claimed): getDataVerification retries after a network-level failure
\* as it does after a non-success response: when the first attempts (fewer
\* than 5) fail at network level and the next attempt succeeds, the call
\* returns the successful result.
C20_RetriesOnNetworkFailure ==
    \A k \in 2..5 :
        ( /\ call.op = "getDataVerification"
          /\ call.text # <<>>
          /\ \A j \in 1..(k - 1) : call.outcomes[j] = "neterr"
          /\ call.outcomes[k] = "ok" )
        => ( /\ call.outcome = "return"
             /\ call.requests = k )

---------------------------------------------------------------------------
(* Properties of the action handlers (specification SpecActions)           *)

\* No memory of the list carries a task id
NoneCarriesId(recent) == \A k \in 1..Len(recent) : Falsy(recent[k])

\* C15: a status-check for which no task id can be resolved (none in the
\* options, none matched in the message text, none in the recent audit
\* memories) returns false and makes no remote call: no client operation is
\* called and no HTTP request is sent.
C15_NoTaskIdNoRemoteCall ==
    ( /\ act.op = "status"
      /\ Falsy(act.optionId)
      /\ Falsy(act.messageId)
      /\ NoneCarriesId(act.recent) )
    => ( /\ act.ret = "false"
         /\ ~act.raised
         /\ act.remoteCalls = 0
         /\ act.requests = 0 )

\* A status-check that looked in all three places, found no id and said so
C15_Witness ==
    /\ act.op = "status"
    /\ Falsy(act.optionId) /\ Falsy(act.messageId) /\ NoneCarriesId(act.recent)
    /\ act.callbacks = <<"noTaskId">>
    /\ act.ret = "false"
    /\ act.remoteCalls = 0
    /\ memories # <<>>

\* C16 (as claimed): on every path of the verify-content handler, failures of
\* the remote call or of the audit memory write included, the result-delivery
\* callback is invoked at most once.
C16_CallbackAtMostOnce == Len(inv[1].callbacks) <= 1

\* The create call of a finished verify-content invocation failed: it was
\* made and no audit entry followed it
CreateFailed(r) == r.pc = "done" /\ r.createCalls = 1 /\ r.memCalls = <<>>

FinishedCleanly(r) == r.pc = "done" /\ r.ret = "true" /\ NoFailureReported(r)

AutoApproved(r) == \E k \in 1..Len(r.callbacks) : r.callbacks[k].kind = "approved"

\* C18: no deduplication.  When all MaxInv verify-content invocations, run in
\* any interleaving with the same non-empty content and valid credentials,
\* have finished without a failing collaborator, the store holds MaxInv audit
\* entries, one written by each invocation and each carrying that content, and
\* the number of remote tasks created is the number of invocations that were
\* not auto-approved.
C18_NoDeduplication ==
    ( /\ ConfigValid(runtime)
      /\ \A i \in 1..MaxInv :
            FinishedCleanly(inv[i]) /\ inv[i].content = SameContent )
    => ( /\ Len(memories) = MaxInv
         /\ \A i \in 1..MaxInv :
               \E k \in 1..Len(memories) :
                   /\ memories[k].by = i
                   /\ memories[k].content = SameContent
                   /\ memories[k].taskId = inv[i].taskId
         /\ Len(remoteTasks) =
               Cardinality({i \in 1..MaxInv : ~AutoApproved(inv[i])}) )

\* All invocations finished cleanly, the later one wrote its entry first, one
\* was auto-approved and another got a remote task
C18_Witness ==
    /\ ConfigValid(runtime)
    /\ \A i \in 1..MaxInv : FinishedCleanly(inv[i]) /\ inv[i].content = SameContent
    /\ Len(memories) = MaxInv
    /\ memories[1].by = MaxInv
    /\ \E i, j \in 1..MaxInv : AutoApproved(inv[i]) /\ ~AutoApproved(inv[j])
    /\ Len(remoteTasks) >= 1

\* The entries of the store written by invocation i
EntriesBy(i) == {k \in 1..Len(memories) : memories[k].by = i}

\* A step keeps every entry of the store in place and adds at most one
KeepsEntries ==
    /\ Len(memories') \in {Len(memories), Len(memories) + 1}
    /\ SubSeq(memories', 1, Len(memories)) = memories

\* C19: the audit memory store is append-only.  Every step keeps the entries
\* written earlier, unchanged and in place, and adds at most one; a step of a
\* status-check, listing or data-verification invocation adds none; each
\* verify-content invocation has at most one entry in the store, and exactly
\* one once it has returned true.
C19_StoreAppendOnly ==
    /\ [][ /\ KeepsEntries
           /\ (act' # act => memories' = memories) ]_vars
    /\ [](\A i \in 1..MaxInv :
             /\ Cardinality(EntriesBy(i)) <= 1
             /\ (inv[i].pc = "done" /\ inv[i].ret = "true")
                    => Cardinality(EntriesBy(i)) = 1)

\* A status-check has returned a task's status while the store holds an entry
\* of every verify-content invocation
C19_Witness ==
    /\ Len(memories) = MaxInv
    /\ \A i \in 1..MaxInv : Cardinality(EntriesBy(i)) = 1
    /\ act.op = "status"
    /\ act.ret = "true"

---------------------------------------------------------------------------
(* Further properties of the client (specification SpecClient)             *)

\* The sum of a sequence of delays
RECURSIVE SumOf(_)
SumOf(d) == IF d = <<>> THEN 0 ELSE d[1] + SumOf(Tail(d))

\* The endpoint refuses the first two requests and accepts the third
FailsTwiceThenSucceeds(c) ==
    /\ c.op = "getDataVerification"
    /\ c.text # <<>>
    /\ c.outcomes[1] = "httpfail" /\ c.outcomes[2] = "httpfail"
    /\ c.outcomes[3] = "ok"

\* C21: in getDataVerification the delay before the k-th retry is 2^(k-1)
\* seconds; every delay lies between two requests, so none precedes the first
\* request and none follows the last one (a success included); against an
\* endpoint that refuses the first two requests and then accepts, the call
\* returns after three requests and exactly two delays, of 1 and 2 seconds.
C21_BackoffDoubles ==
    call.op = "getDataVerification" =>
        /\ \A k \in 1..Len(call.delays) : call.delays[k] = 2 ^ (k - 1)
        /\ Len(call.delays) = (IF call.requests = 0 THEN 0 ELSE call.requests - 1)
        /\ FailsTwiceThenSucceeds(call) =>
              /\ call.outcome = "return"
              /\ call.requests = 3
              /\ call.delays = <<1, 2>>
              /\ SumOf(call.delays) = 3

C21_Witness ==
    /\ FailsTwiceThenSucceeds(call)
    /\ call.outcome = "return"
    /\ call.delays = <<1, 2>>

---------------------------------------------------------------------------
(* Properties of the status-check handler (specification SpecStatus)       *)

\* A reported verdict as a tri-state: the strings "true" and "false" count as
\* the booleans
AsTriState(x) ==
    IF x \in {JsTrue, "true"} THEN JsTrue
    ELSE IF x \in {JsFalse, "false"} THEN JsFalse
    ELSE JsNull

\* The Reducer of the build the handler belongs to
ReducerOf(build, t) ==
    IF build = "dist" THEN formatVerificationStatusResponseBundle(t)
    ELSE formatVerificationStatusResponse(t)

\* C22 (as claimed): a status-check that fetched a task reports exactly the
\* Reducer's view of that snapshot: the status and the answer handed to the
\* callback equal the status and the tri-state answer the Reducer computes
\* for the task getTaskById returned.
C22_ReportsReducerView ==
    (act.op = "status" /\ act.ret = "true") =>
        /\ act.status = ReducerOf(act.build, task).status
        /\ AsTriState(act.answer) = ReducerOf(act.build, task).answer

---------------------------------------------------------------------------
(* Further properties of the Reducer (specification SpecReducer)           *)

\* C23: for every task with status "pending", n votes (an absent votes field
\* counts as none) and consensusVotes = m, the Reducer's text is the progress
\* sentence "n of m required votes collected"; for a status other than
\* completed or pending the text echoes the literal status.
C23_ProgressText ==
    /\ ( /\ Reduced
         /\ WellFormedVotes(task)
         /\ task.status = "pending"
         /\ task.consensusVotes # NoNumber )
       => ( /\ response.text.kind = "progress"
            /\ response.text.n = Len(task.votes.items)
            /\ response.text.m = task.consensusVotes )
    /\ ( /\ Reduced
         /\ WellFormedVotes(task)
         /\ task.status \notin {"completed", "pending", UNDEF} )
       => ( /\ response.text.kind = "echo"
            /\ response.text.status = task.status )

\* A pending task with MaxVotes votes of MaxConsensus required: "2 of 3"
C23_Witness ==
    /\ Reduced
    /\ task.status = "pending"
    /\ WellFormedVotes(task)
    /\ Len(task.votes.items) = MaxVotes
    /\ task.consensusVotes = MaxConsensus
    /\ response.text.kind = "progress"
    /\ response.text.n = MaxVotes
    /\ response.text.m = MaxConsensus

---------------------------------------------------------------------------
(* Further properties of the handlers (specifications SpecActions, Spec)   *)

\* Two invocations were given the same content and options and got the same
\* answer from the pre-check (the settings are those of the one runtime)
SameInputs(r, q) ==
    /\ r.content = q.content
    /\ r.skip = q.skip
    /\ r.preOutcome = q.preOutcome

\* The ids the remote service can issue
RemoteIds == {RemoteIdOf(n) : n \in 1..(MaxInv + 1)}

\* C24 (as claimed): the task id synthesized for an auto-approved content is
\* deterministic: two auto-approving verify-content invocations run from the
\* same inputs yield the same task id; and that id is never one issued by the
\* remote service.
C24_AutoApprovalIdDeterministic ==
    \A i, j \in 1..MaxInv :
        ( /\ AutoApproved(inv[i]) /\ AutoApproved(inv[j])
          /\ SameInputs(inv[i], inv[j]) )
        => ( /\ inv[i].taskId = inv[j].taskId
             /\ inv[i].taskId \notin RemoteIds )

\* Values the RAIINMAKER_ENVIRONMENT setting can be given
EnvironmentTags == {UNDEF, "development", "staging", "production", "bogus"}

\* The same settings with another environment tag
Retagged(rt, e) == [rt EXCEPT !.RAIINMAKER_ENVIRONMENT = e]

\* C25 (as claimed): the environment tag gates nothing: under the settings of
\* this run and under the same settings with any other value of the tag (or
\* none), the verify-content handler given the same options and text takes
\* the same first step (fails, or goes on to the pre-check or the remote
\* call), and the status-check handler given the same options, message and
\* remote answer ends in the same state with the same remote calls.
C25_EnvironmentTagGatesNothing ==
    \A e \in EnvironmentTags :
        /\ \A o \in OptionValues, x \in Texts :
              StartResult(IdleInv, Retagged(runtime, e), o, x)
                  = StartResult(IdleInv, runtime, o, x)
        /\ \A o \in StatusOptionValues, m \in StatusMessageValues,
              r \in StatusResponses :
              checkVerificationStatus(Retagged(runtime, e), o, m, TRUE, <<>>, r,
                                      "completed", "true")
                  = checkVerificationStatus(runtime, o, m, TRUE, <<>>, r,
                                            "completed", "true")

---------------------------------------------------------------------------
(* Task id resolution (specification SpecStatus)                           *)

\* id is carried by the first memory of the list that carries an id
IsFirstCarried(recent, id) ==
    \E k \in 1..Len(recent) :
        /\ recent[k] = id
        /\ ~Falsy(recent[k])
        /\ \A j \in 1..(k - 1) : Falsy(recent[j])

\* C26: task id resolution in the status-check follows a strict precedence.
\* With valid settings: an explicit taskId option is used whenever present;
\* otherwise the id matched in the message text; the recent memories are read
\* only when both fail, and then the id of the first memory, in returned
\* order, that carries one is used; and whenever an id is resolved exactly one
\* getTaskById call is made, with that id.
C26_ResolutionPrecedence ==
    (act.op = "status" /\ ConfigValid(runtime)) =>
        /\ ~Falsy(act.optionId) =>
              /\ act.requestedId = act.optionId
              /\ act.memReads = 0
              /\ act.remoteCalls = 1
        /\ (act.optionId = UNDEF /\ ~Falsy(act.messageId)) =>
              /\ act.requestedId = act.messageId
              /\ act.memReads = 0
              /\ act.remoteCalls = 1
        /\ act.memReads > 0 =>
              /\ act.memReads = 1
              /\ Falsy(act.optionId) /\ Falsy(act.messageId)
        /\ ( /\ act.optionId = UNDEF /\ act.hasText /\ Falsy(act.messageId)
             /\ act.memOk /\ ~NoneCarriesId(act.recent) ) =>
              /\ act.memReads = 1
              /\ IsFirstCarried(act.recent, act.requestedId)
              /\ act.remoteCalls = 1
        /\ act.remoteCalls <= 1

\* The id came from the second memory: the first carries none
C26_Witness ==
    /\ act.op = "status"
    /\ ConfigValid(runtime)
    /\ act.optionId = UNDEF /\ Falsy(act.messageId)
    /\ Len(act.recent) = 2
    /\ Falsy(act.recent[1])
    /\ act.recent[2] = "t2"
    /\ act.requestedId = "t2"
    /\ act.remoteCalls = 1
    /\ act.ret = "true"

---------------------------------------------------------------------------
(* The Reducer's text against its answer (specification SpecReducer)       *)

\* C27 (as claimed): for a completed task the Reducer's text agrees with its
\* answer: it says "approved" (check glyph) only when the answer is true and
\* "rejected" (cross glyph) only when the answer is false; a completed task
\* whose answer is unresolved (null) is never rendered as rejected.
C27_TextAgreesWithAnswer ==
    ( /\ Reduced
      /\ WellFormedVotes(task)
      /\ task.status = "completed" )
    => ( /\ (response.text.word = "approved" \/ response.emoji = "check")
               => response.answer = JsTrue
         /\ (response.text.word = "rejected" \/ response.emoji = "cross")
               => response.answer = JsFalse )

---------------------------------------------------------------------------
(* The audit memory and the remote service (specification SpecActions)     *)

\* The ids of the tasks createVerificationTask created on the remote service
CreatedRemotely == {remoteTasks[k] : k \in 1..Len(remoteTasks)}

\* C28 (as claimed): every task id that a status-check resolves from the
\* recent audit memory and passes to getTaskById is the id of a task that
\* createVerificationTask created on the remote service, never a locally
\* synthesized auto-approval id.
C28_MemoryIdsAreRemoteTasks ==
    ( /\ act.op = "status"
      /\ act.memReads = 1
      /\ act.remoteCalls = 1 )
    => ( /\ act.requestedId \in CreatedRemotely
         /\ act.requestedId \notin Uuids )

---------------------------------------------------------------------------
(* What the verify-content handler reports (specification Spec)            *)

\* The store holds an audit entry carrying the task id
Recorded(taskId) == \E k \in 1..Len(memories) : memories[k].taskId = taskId

\* C29 (as claimed): whenever the verify-content handler has reported a task
\* id to the caller through the callback (status "pending" or "approved"), an
\* audit memory entry carrying that task id has already been written.
C29_ReportedIdIsRecorded ==
    \A k \in 1..Len(inv[1].callbacks) :
        inv[1].callbacks[k].kind \in {"pending", "approved"}
            => Recorded(inv[1].callbacks[k].taskId)

\* The invocation created a task on the remote service
TaskCreated(r) ==
    /\ r.createCalls = 1
    /\ \E k \in 1..Len(remoteTasks) : remoteTasks[k] = r.taskId

\* C30 (as claimed): the verify-content handler's return value reflects what
\* happened remotely: an invocation that returns false created no remote
\* task, and an invocation returns true exactly when it ended with a task
\* created or with an auto-approval; a failing audit memory write cannot
\* leave a created remote task reported as a failure.
C30_ReturnReflectsRemote ==
    LET r == inv[1] IN
    r.pc = "done" =>
        /\ r.ret = "false" => remoteTasks = <<>>
        /\ r.ret = "true" <=> (TaskCreated(r) \/ AutoApproved(r))

=============================================================================
